---- MODULE Spec2Model ----
(***************************************************************************)
(* Email-request approval workflow of domain-central:                      *)
(*   routes/emails.js   submit (POST /), transition (PUT /:id/status),     *)
(*                      remove (DELETE /:id)                               *)
(*   routes/domains.js  domain update (PUT /:id), domain delete            *)
(*                      (DELETE /:id)                                      *)
(*   models/*.js        the Mongoose schemas (setters, validators, the     *)
(*                      unique compound index)                             *)
(* Every `await` on the document store is one atomic step; the handlers    *)
(* of concurrent HTTP requests interleave between those steps.             *)
(*                                                                         *)
(* The store is MongoDB behind Mongoose:                                   *)
(*   - save() of a new document validates it and inserts it; the insert    *)
(*     fails with E11000 when it duplicates a key of a unique index;       *)
(*   - save() of a document that was read validates it and sends a $set    *)
(*     of its modified paths (a $push for an array that was pushed to),    *)
(*     and fails with DocumentNotFoundError when the document is gone;     *)
(*   - the setters of a schema path (trim, lowercase) are applied to the   *)
(*     values assigned to the path and to the values of query filters.     *)
(* Every error thrown inside a handler reaches its catch block: 500.       *)
(*                                                                         *)
(* Further specifications over the same state:                             *)
(*   MergeSpec     the settings objects of a transition                    *)
(*   AdminSpec     account update and delete of the admin routes           *)
(*   ReadSpec      list, get-by-id and statistics of routes/emails.js      *)
(*   PurchaseSpec  POST /purchase of routes/domains.js and the registrar   *)
(*   SmsSpec       Gmail sync, mark-as-read, disconnect, OAuth callback    *)
(***************************************************************************)
EXTENDS Integers, Sequences, FiniteSets, TLC

VARIABLES
    domains,    \* the Domain collection: id -> document
    requests,   \* the EmailRequest collection: id -> document
    nextId,     \* the next EmailRequest _id to be minted
    clock,      \* the value the next `new Date()` of a transition returns
    pc,         \* per handler invocation: the await it is suspended at
    call,       \* per handler invocation: req.user, req.params, req.body
    local,      \* per handler invocation: the documents it holds in memory
    resp,       \* per handler invocation: the response sent (NULL: none yet)
    appends,    \* history: request id -> number of mailbox records pushed for it
    users,      \* the User collection: id -> document
    registrar,  \* the registrar: what it reports available, what it was asked to buy
    gmail,      \* the token store, the OAuth client and the Gmail mailbox
    sms         \* the SmsMessage collection: the documents in insertion order

vars == <<domains, requests, nextId, clock, pc, call, local, resp, appends,
          users, registrar, gmail, sms>>

\* the state outside the email-request workflow
others == <<users, registrar, gmail, sms>>

\* the state of the email-request workflow
workflow == <<domains, requests, nextId, clock, appends>>

-----------------------------------------------------------------------------
(* Bounds of the model *)

MaxRequests == 2    \* EmailRequest documents ever inserted
MaxClock == 2       \* transitions that ever read the clock

\* Two handler invocations can be in flight together: every race of the
\* handlers is a race between two HTTP requests.
Procs == {"h1", "h2"}

RequestIds == 1..MaxRequests

NULL == [isNull |-> TRUE]

-----------------------------------------------------------------------------
(* Accounts (req.user as loaded by authenticateToken) *)

Users == {"alice", "root"}

isAdmin == [u \in Users |-> u = "root"]

\* a middleware that lets every authenticated caller through
NoAdminCheck(user) == TRUE

\* requireAdmin: the handler runs only when req.user.isAdmin
requireAdmin(user) == isAdmin[user]

-----------------------------------------------------------------------------
(* Strings are sequences of characters; the conversions are computed. *)

Lower(c) == IF c = "A" THEN "a" ELSE c

\* String.prototype.toLowerCase
ToLowerCase(s) == [i \in 1..Len(s) |-> Lower(s[i])]

RECURSIVE TrimStart(_)
TrimStart(s) == IF s # <<>> /\ Head(s) = " " THEN TrimStart(Tail(s)) ELSE s

RECURSIVE TrimEnd(_)
TrimEnd(s) ==
    IF s # <<>> /\ s[Len(s)] = " " THEN TrimEnd(SubSeq(s, 1, Len(s) - 1)) ELSE s

\* String.prototype.trim
Trim(s) == TrimEnd(TrimStart(s))

\* EmailRequest.requestedUsername: { trim: true, lowercase: true }
UsernameSetter(s) == Trim(ToLowerCase(s))

\* EmailRequest.fullEmailAddress: { lowercase: true }
FullEmailSetter(s) == ToLowerCase(s)

\* EmailRequest.password: { minlength: 8 }
PasswordMinLength == 8

PasswordValid(pw) == Len(pw) >= PasswordMinLength

-----------------------------------------------------------------------------
(* Inputs *)

DomainIds == {"d1"}

DomainNameOf == [d \in DomainIds |-> <<"x.io">>]

DomainStatuses == {"active", "expired", "pending", "cancelled"}

\* the value of req.body.status the model sends to the Domain update
UpdateStatuses == {"expired"}

RequestStatuses == {"pending", "created", "rejected"}

\* req.body.username: a plain name, and one that differs from it by case and
\* by surrounding whitespace
Usernames == {<<"a">>, <<" ", "A">>}

Passwords == {"Abcd1234!", "short"}

-----------------------------------------------------------------------------
(* The document store *)

NoUser == "undefined"   \* an ObjectId reference that was never set
NoDate == 0             \* a Date that was never set

\* a query that only sees the requests that are still pending
FindOnePendingRequest(coll, domainId, username) ==
    LET hits == {i \in DOMAIN coll :
                    /\ coll[i].domain = domainId
                    /\ coll[i].requestedUsername = UsernameSetter(username)
                    /\ coll[i].status = "pending"}
    IN  IF hits = {} THEN NULL ELSE coll[CHOOSE i \in hits : TRUE]

\* Model.findById: the stored document, or null
FindById(coll, id) == IF id \in DOMAIN coll THEN coll[id] ELSE NULL

\* EmailRequest.findOne({ domain, requestedUsername }); the schema's setters
\* (trim, lowercase) are applied to the filter value when the query is cast
FindOneRequest(coll, domainId, username) ==
    LET hits == {i \in DOMAIN coll :
                    /\ coll[i].domain = domainId
                    /\ coll[i].requestedUsername = UsernameSetter(username)}
    IN  IF hits = {} THEN NULL ELSE coll[CHOOSE i \in hits : TRUE]

\* a store whose collection has no unique index
NoUniqueIndex(coll, doc) == FALSE

\* emailRequestSchema.index({ domain: 1, requestedUsername: 1 }, { unique: true }):
\* inserting doc would duplicate a key of the index
UniqueIndexViolated(coll, doc) ==
    \E i \in DOMAIN coll :
        /\ coll[i].domain = doc.domain
        /\ coll[i].requestedUsername = doc.requestedUsername

\* new EmailRequest({...}): the schema's setters and defaults applied
NewEmailRequest(domainId, domainName, username, fullEmailAddress, password, user) ==
    [domain            |-> domainId,
     domainName        |-> domainName,
     requestedUsername |-> UsernameSetter(username),
     fullEmailAddress  |-> FullEmailSetter(fullEmailAddress),
     password          |-> password,
     requestedBy       |-> user,
     status            |-> "pending",
     processedBy       |-> NoUser,
     processedAt       |-> NoDate]

\* the validators save() runs: required paths and password's minlength
EmailRequestValid(doc) ==
    /\ doc.requestedUsername # <<>>
    /\ doc.fullEmailAddress # <<>>
    /\ doc.password # ""
    /\ PasswordValid(doc.password)
    /\ doc.status \in RequestStatuses

-----------------------------------------------------------------------------
(* Responses *)

Response(status, message) == [status |-> status, message |-> message, error |-> ""]

\* the catch blocks: 500 with the handler's message; error.message is logged
\* (and returned when NODE_ENV is development)
Failure(message, error) == [status |-> 500, message |-> message, error |-> error]

\* res.status(...).json(...): the handler ends with response r
Respond(p, r) ==
    /\ resp' = [resp EXCEPT ![p] = r]
    /\ pc' = [pc EXCEPT ![p] = "done"]
    /\ local' = [local EXCEPT ![p] = NULL]
    /\ call' = [call EXCEPT ![p] = NULL]

\* the handler suspends at its next await, holding loc in memory
Goto(p, label, loc) ==
    /\ pc' = [pc EXCEPT ![p] = label]
    /\ local' = [local EXCEPT ![p] = loc]
    /\ UNCHANGED <<call, resp>>

\* the handler of a new HTTP request c suspends at its first await
Begin(p, c, label, loc) ==
    /\ pc' = [pc EXCEPT ![p] = label]
    /\ local' = [local EXCEPT ![p] = loc]
    /\ call' = [call EXCEPT ![p] = c]
    /\ UNCHANGED resp

-----------------------------------------------------------------------------
(* submit: router.post('/') of routes/emails.js *)

\* lines 85-98: the request arrives, basic validation, Domain.findById
SubmitFindDomain(p) ==
    /\ pc[p] = "idle"
    /\ \E user \in Users, domainId \in DomainIds,
          username \in Usernames, password \in Passwords :
          LET domain == FindById(domains, domainId) IN
          /\ LET c == [op |-> "submit", user |-> user, domainId |-> domainId,
                         username |-> username, password |-> password] IN
             IF username = <<>> \/ password = ""
             THEN Respond(p, Response(400,
                      "Domain ID, username, and password are required"))
             ELSE IF domain = NULL
             THEN Respond(p, Response(404, "Domain not found"))
             ELSE Begin(p, c, "submit_findOne",
                        [path \in {"domainName", "status", "emails"} |->
                            domain[path]])
    /\ UNCHANGED <<domains, requests, nextId, clock, appends>>
    /\ UNCHANGED others

\* lines 100-124: EmailRequest.findOne, then the check of the mailbox list of
\* the Domain document read before
SubmitFindRequest(p) ==
    /\ pc[p] = "submit_findOne"
    /\ LET username == call[p].username
           domain == local[p]
           existingRequest ==
               FindOneRequest(requests, call[p].domainId, ToLowerCase(username))
           emailExists ==
               \E i \in 1..Len(domain.emails) :
                   ToLowerCase(domain.emails[i].username) = ToLowerCase(username)
       IN  IF existingRequest # NULL
           THEN Respond(p, Response(400,
                    "Email request already exists for this username on this domain"))
           ELSE IF emailExists
           THEN Respond(p, Response(400, "Email already exists on this domain"))
           ELSE Goto(p, "submit_save", local[p])
    /\ UNCHANGED <<domains, requests, nextId, clock, appends>>
    /\ UNCHANGED others

\* lines 100-101, 126-149: the document is built and saved (validated, then
\* inserted under the unique index)
SubmitSave(p) ==
    /\ pc[p] = "submit_save"
    /\ LET username == call[p].username
           domain == local[p]
           fullEmailAddress == ToLowerCase(username) \o <<"@">> \o domain.domainName
           emailRequest ==
               NewEmailRequest(call[p].domainId, domain.domainName,
                               ToLowerCase(username), fullEmailAddress,
                               call[p].password, call[p].user)
       IN  IF ~EmailRequestValid(emailRequest)
           THEN /\ Respond(p, Failure("Failed to create email request",
                                      "ValidationError"))
                /\ UNCHANGED <<requests, nextId>>
           ELSE IF UniqueIndexViolated(requests, emailRequest)
           THEN /\ Respond(p, Failure("Failed to create email request",
                                      "E11000 duplicate key"))
                /\ UNCHANGED <<requests, nextId>>
           ELSE /\ nextId <= MaxRequests
                /\ requests' = requests @@ (nextId :> emailRequest)
                /\ nextId' = nextId + 1
                /\ Respond(p, Response(201, "Email request created successfully"))
    /\ UNCHANGED <<domains, clock, appends>>
    /\ UNCHANGED others

-----------------------------------------------------------------------------
(* transition: router.put('/:id/status') of routes/emails.js *)

\* req.body.password of a transition: "" when the field is not sent
TransitionPasswords == {"", "short"}

\* Document.set as the handler uses it: the path becomes the value, and is
\* marked modified when the value differs from the one the document holds
SetPath(doc, modified, path, value) ==
    [doc      |-> [doc EXCEPT ![path] = value],
     modified |-> IF doc[path] = value THEN modified ELSE modified \cup {path}]

\* lines 194-206: the in-memory changes to the document that was read
ApplyTransition(emailRequest, status, user, now, password) ==
    LET s1 == SetPath(emailRequest, {}, "status", status)
        s2 == SetPath(s1.doc, s1.modified, "processedBy", user)
        s3 == SetPath(s2.doc, s2.modified, "processedAt", now)
    IN  IF password # ""
        THEN SetPath(s3.doc, s3.modified, "password", password)
        ELSE s3

\* what a handler keeps of an in-memory document s for its later steps: the
\* values of the modified paths, which save() will send, and the fields in
\* read, which it reads again
Held(s, read) ==
    [delta |-> [path \in s.modified |-> s.doc[path]],
     doc   |-> [path \in read |-> s.doc[path]]]

\* what save() of an existing document writes: $set of the modified paths
\* onto the document as it is stored now
SetModified(stored, delta) ==
    [path \in DOMAIN stored |->
        IF path \in DOMAIN delta THEN delta[path] ELSE stored[path]]

\* the validators save() runs on the modified paths of an EmailRequest
DeltaValid(delta) ==
    /\ "password" \in DOMAIN delta => PasswordValid(delta.password)
    /\ "status" \in DOMAIN delta => delta.status \in RequestStatuses

\* lines 161-206: requireAdmin, the validators, EmailRequest.findById, then
\* the in-memory changes
TransitionFind(p) ==
    /\ pc[p] = "idle"
    /\ \E user \in Users :
          IF ~requireAdmin(user)
          THEN /\ Respond(p, Response(403,
                       "Access denied. Admin privileges required."))
               /\ UNCHANGED clock
          ELSE \E status \in RequestStatuses :
          IF status \notin RequestStatuses
          THEN /\ Respond(p, Response(400, "Validation failed"))
               /\ UNCHANGED clock
          ELSE \E id \in RequestIds :
          LET emailRequest == FindById(requests, id) IN
          IF emailRequest = NULL
          THEN /\ Respond(p, Response(404, "Email request not found"))
               /\ UNCHANGED clock
          ELSE \E password \in TransitionPasswords :
               LET c == [op |-> "transition", user |-> user, id |-> id,
                         status |-> status, password |-> password] IN
               /\ clock <= MaxClock
               /\ clock' = clock + 1
               /\ Begin(p, c, "transition_save",
                       Held(ApplyTransition(emailRequest, status, user,
                                            clock, password),
                            {"domain", "requestedUsername", "fullEmailAddress"}))
    /\ UNCHANGED <<domains, requests, nextId, appends>>
    /\ UNCHANGED others

\* a save followed by the Domain steps for every status but pending
TransitionSaveThenDomain(p) ==
    /\ pc[p] = "transition_save"
    /\ LET id == call[p].id
       IN  IF ~DeltaValid(local[p].delta)
           THEN /\ Respond(p, Failure("Failed to update email request status",
                                      "ValidationError"))
                /\ UNCHANGED requests
           ELSE IF id \notin DOMAIN requests
           THEN /\ Respond(p, Failure("Failed to update email request status",
                                      "DocumentNotFoundError"))
                /\ UNCHANGED requests
           ELSE /\ requests' = [requests EXCEPT ![id] =
                                   SetModified(@, local[p].delta)]
                /\ IF call[p].status # "pending"
                   THEN Goto(p, "transition_findDomain", local[p].doc)
                   ELSE Respond(p, Response(200,
                            "Email request status updated successfully"))
    /\ UNCHANGED <<domains, nextId, clock, appends>>
    /\ UNCHANGED others

\* lines 227, 235: emailRequest.save(), then the branch on the new status
TransitionSave(p) ==
    /\ pc[p] = "transition_save"
    /\ LET id == call[p].id
       IN  IF ~DeltaValid(local[p].delta)
           THEN /\ Respond(p, Failure("Failed to update email request status",
                                      "ValidationError"))
                /\ UNCHANGED requests
           ELSE IF id \notin DOMAIN requests
           THEN /\ Respond(p, Failure("Failed to update email request status",
                                      "DocumentNotFoundError"))
                /\ UNCHANGED requests
           ELSE /\ requests' = [requests EXCEPT ![id] =
                                   SetModified(@, local[p].delta)]
                /\ IF call[p].status = "created"
                   THEN Goto(p, "transition_findDomain", local[p].doc)
                   ELSE Respond(p, Response(200,
                            "Email request status updated successfully"))
    /\ UNCHANGED <<domains, nextId, clock, appends>>
    /\ UNCHANGED others

\* lines 236-237: Domain.findById(emailRequest.domain); a missing Domain is
\* skipped and the handler goes on to its response
TransitionFindDomain(p) ==
    /\ pc[p] = "transition_findDomain"
    /\ LET domain == FindById(domains, local[p].domain)
       IN  IF domain = NULL
           THEN Respond(p, Response(200,
                    "Email request status updated successfully"))
           ELSE Goto(p, "transition_saveDomain", local[p])
    /\ UNCHANGED <<domains, requests, nextId, clock, appends>>
    /\ UNCHANGED others

\* lines 238-243: domain.emails.push({...})
MailboxOf(emailRequest) ==
    [username  |-> emailRequest.requestedUsername,
     fullEmail |-> emailRequest.fullEmailAddress]

\* lines 238-263: the push and domain.save(), which sends a $push of the new
\* element onto the array as stored now; then the response
TransitionSaveDomain(p) ==
    /\ pc[p] = "transition_saveDomain"
    /\ LET domainId == local[p].domain
       IN  IF domainId \notin DOMAIN domains
           THEN /\ Respond(p, Failure("Failed to update email request status",
                                      "DocumentNotFoundError"))
                /\ UNCHANGED <<domains, appends>>
           ELSE /\ domains' = [domains EXCEPT ![domainId].emails =
                                  Append(@, MailboxOf(local[p]))]
                /\ appends' = [appends EXCEPT ![call[p].id] = @ + 1]
                /\ Respond(p, Response(200,
                       "Email request status updated successfully"))
    /\ UNCHANGED <<requests, nextId, clock>>
    /\ UNCHANGED others

-----------------------------------------------------------------------------
(* remove: router.delete('/:id') of routes/emails.js *)

\* a collection without the documents whose ids are in ids
Without(coll, ids) == [i \in DOMAIN coll \ ids |-> coll[i]]

\* lines 277-290: EmailRequest.findById and the checks for non-admin callers
RemoveFind(p) ==
    /\ pc[p] = "idle"
    /\ \E user \in Users, id \in RequestIds :
          LET emailRequest == FindById(requests, id) IN
          /\ LET c == [op |-> "remove", user |-> user, id |-> id] IN
             IF emailRequest = NULL
             THEN Respond(p, Response(404, "Email request not found"))
             ELSE IF ~isAdmin[user] /\ emailRequest.requestedBy # user
             THEN Respond(p, Response(403, "Access denied"))
             ELSE IF ~isAdmin[user] /\ emailRequest.status # "pending"
             THEN Respond(p, Response(400, "Can only delete pending requests"))
             ELSE Begin(p, c, "remove_delete", NULL)
    /\ UNCHANGED <<domains, requests, nextId, clock, appends>>
    /\ UNCHANGED others

\* a remove that also takes the request's mailbox off its Domain's list
RemoveDeleteWithMailbox(p) ==
    /\ pc[p] = "remove_delete"
    /\ requests' = Without(requests, {call[p].id})
    /\ domains' =
           IF call[p].id \in DOMAIN requests
           THEN [d \in DOMAIN domains |->
                    [domains[d] EXCEPT !.emails =
                        SelectSeq(@, LAMBDA e :
                            e.fullEmail # requests[call[p].id].fullEmailAddress)]]
           ELSE domains
    /\ Respond(p, Response(200, "Email request deleted successfully"))
    /\ UNCHANGED <<nextId, clock, appends>>
    /\ UNCHANGED others

\* lines 292-297: EmailRequest.findByIdAndDelete
RemoveDelete(p) ==
    /\ pc[p] = "remove_delete"
    /\ requests' = Without(requests, {call[p].id})
    /\ Respond(p, Response(200, "Email request deleted successfully"))
    /\ UNCHANGED <<domains, nextId, clock, appends>>
    /\ UNCHANGED others

-----------------------------------------------------------------------------
(* Domain update and delete: routes/domains.js *)

\* lines 273-297: requireAdmin, validators, Domain.findById, then the allowed
\* fields of the body are set on the document (of them the model keeps status)
DomainUpdateFind(p) ==
    /\ pc[p] = "idle"
    /\ \E user \in Users, domainId \in DomainIds, status \in UpdateStatuses :
          LET domain == FindById(domains, domainId) IN
          /\ LET c == [op |-> "domainUpdate", user |-> user,
                         domainId |-> domainId, status |-> status] IN
             IF ~requireAdmin(user)
             THEN Respond(p, Response(403,
                      "Access denied. Admin privileges required."))
             ELSE IF status \notin DomainStatuses
             THEN Respond(p, Response(400, "Validation failed"))
             ELSE IF domain = NULL
             THEN Respond(p, Response(404, "Domain not found"))
             ELSE Begin(p, c, "domainUpdate_save",
                        Held(SetPath(domain, {}, "status", status), {}))
    /\ UNCHANGED <<domains, requests, nextId, clock, appends>>
    /\ UNCHANGED others

\* lines 299-306: domain.save(); nothing is sent when no path was modified
DomainUpdateSave(p) ==
    /\ pc[p] = "domainUpdate_save"
    /\ LET domainId == call[p].domainId
       IN  IF DOMAIN local[p].delta = {}
           THEN /\ Respond(p, Response(200, "Domain updated successfully"))
                /\ UNCHANGED domains
           ELSE IF domainId \notin DOMAIN domains
           THEN /\ Respond(p, Failure("Failed to update domain",
                                      "DocumentNotFoundError"))
                /\ UNCHANGED domains
           ELSE /\ domains' = [domains EXCEPT ![domainId] =
                                  SetModified(@, local[p].delta)]
                /\ Respond(p, Response(200, "Domain updated successfully"))
    /\ UNCHANGED <<requests, nextId, clock, appends>>
    /\ UNCHANGED others

\* lines 320-332: Domain.findById and the owner-or-admin check
DomainDeleteFind(p) ==
    /\ pc[p] = "idle"
    /\ \E user \in Users, domainId \in DomainIds :
          LET domain == FindById(domains, domainId) IN
          /\ LET c == [op |-> "domainDelete", user |-> user, domainId |-> domainId] IN
             IF domain = NULL
             THEN Respond(p, Response(404, "Domain not found"))
             ELSE IF ~(isAdmin[user] \/ domain.purchasedBy = user)
             THEN Respond(p, Response(403,
                      "You can only delete domains you purchased"))
             ELSE Begin(p, c, "domainDelete_requests", NULL)
    /\ UNCHANGED <<domains, requests, nextId, clock, appends>>
    /\ UNCHANGED others

\* lines 334-336: EmailRequest.deleteMany({ domain })
DomainDeleteRequests(p) ==
    /\ pc[p] = "domainDelete_requests"
    /\ requests' = Without(requests,
                       {i \in DOMAIN requests : requests[i].domain = call[p].domainId})
    /\ Goto(p, "domainDelete_domain", NULL)
    /\ UNCHANGED <<domains, nextId, clock, appends>>
    /\ UNCHANGED others

\* lines 338-343: Domain.findByIdAndDelete
DomainDeleteDomain(p) ==
    /\ pc[p] = "domainDelete_domain"
    /\ domains' = Without(domains, {call[p].domainId})
    /\ Respond(p, Response(200, "Domain deleted successfully from database"))
    /\ UNCHANGED <<requests, nextId, clock, appends>>
    /\ UNCHANGED others

-----------------------------------------------------------------------------
(* The system *)

\* the response has been delivered: the invocation is over and its slot can
\* serve the next HTTP request
Return(p) ==
    /\ pc[p] = "done"
    /\ pc' = [pc EXCEPT ![p] = "idle"]
    /\ call' = [call EXCEPT ![p] = NULL]
    /\ resp' = [resp EXCEPT ![p] = NULL]
    /\ UNCHANGED <<domains, requests, nextId, clock, local, appends>>
    /\ UNCHANGED others

\* a Domain as purchase or sync stores it: active, no mailboxes yet
NewDomain(domainId, user) ==
    [domainName  |-> DomainNameOf[domainId],
     status      |-> "active",
     emails      |-> <<>>,
     purchasedBy |-> user]

\* the state outside the email-request workflow when the server has started:
\* the accounts, a registrar that was asked nothing, no Gmail tokens, no SMS
InitialUsers == [u \in Users |-> [isAdmin |-> isAdmin[u]]]

InitialRegistrar == [available |-> {}, purchased |-> {}]

\* new TokenStore(): an empty Map; the OAuth client has no credentials
InitialGmail ==
    [tokens |-> NULL, credentials |-> NULL, disconnected |-> FALSE,
     refused |-> FALSE]

InitOthers ==
    /\ users = InitialUsers
    /\ registrar = InitialRegistrar
    /\ gmail = InitialGmail
    /\ sms = <<>>

\* one purchased Domain, no Email Request yet, no request being handled
InitWorkflow ==
    /\ domains = [d \in DomainIds |-> NewDomain(d, "alice")]
    /\ requests = <<>>
    /\ nextId = 1
    /\ clock = 1
    /\ pc = [p \in Procs |-> "idle"]
    /\ call = [p \in Procs |-> NULL]
    /\ local = [p \in Procs |-> NULL]
    /\ resp = [p \in Procs |-> NULL]
    /\ appends = [i \in RequestIds |-> 0]

Init == InitOthers /\ InitWorkflow

Next ==
    \E p \in Procs :
        \/ SubmitFindDomain(p)
        \/ SubmitFindRequest(p)
        \/ SubmitSave(p)
        \/ TransitionFind(p)
        \/ TransitionSave(p)
        \/ TransitionFindDomain(p)
        \/ TransitionSaveDomain(p)
        \/ RemoveFind(p)
        \/ RemoveDelete(p)
        \/ DomainUpdateFind(p)
        \/ DomainUpdateSave(p)
        \/ DomainDeleteFind(p)
        \/ DomainDeleteRequests(p)
        \/ DomainDeleteDomain(p)
        \/ Return(p)

Spec == Init /\ [][Next]_vars

-----------------------------------------------------------------------------
(* transition, the transport settings: lines 208-227 of routes/emails.js *)

\* an object of settings is a function from the fields it has to their values
SettingsFields == {"server", "port", "security"}

\* emailRequestSchema.smtpSettings.security: enum
SecurityModes == {"SSL/TLS", "STARTTLS", "None"}

\* the values the model gives to a field; "bogus" is outside the enum
SettingsChoices ==
    [server : {"a"}, port : {587, 465}, security : {"STARTTLS", "bogus"}]

SettingsObjects ==
    {[k \in F |-> c[k]] : F \in SUBSET SettingsFields, c \in SettingsChoices}

\* the objects a stored document can hold: every field passed the validators
StoredSettings ==
    {o \in SettingsObjects :
        "security" \in DOMAIN o => o.security \in SecurityModes}

\* req.body.smtpSettings is undefined, or falsy
IsNull(x) == "isNull" \in DOMAIN x

\* { ...a, ...b }
ObjectSpread(a, b) ==
    [k \in DOMAIN a \cup DOMAIN b |-> IF k \in DOMAIN b THEN b[k] ELSE a[k]]

\* settings that are replaced by the supplied object
ReplaceSettings(existing, supplied) ==
    IF IsNull(supplied) THEN existing ELSE supplied

\* lines 209-216 (and 218-225): the settings the document holds after the
\* handler has looked at the supplied object
MergeSettings(existing, supplied) ==
    IF IsNull(supplied)
    THEN existing
    ELSE IF ~IsNull(existing)
    THEN ObjectSpread(existing, supplied)
    ELSE supplied

\* the validators save() runs on the settings: the enum of security
SettingsValid(o) == "security" \in DOMAIN o => o.security \in SecurityModes

SettingsPaths == {"smtpSettings", "imapSettings"}

\* lines 179-227 for the settings alone: both objects are merged in memory
\* and the document is saved; the calls are made one after the other
TransitionSettings(p) ==
    /\ \A q \in Procs : pc[q] = "idle"
    /\ \E id \in DOMAIN requests :
       \E smtpSettings \in SettingsObjects \cup {NULL},
          imapSettings \in SettingsObjects \cup {NULL} :
          LET c == [op |-> "transition", id |-> id,
                    smtpSettings |-> smtpSettings, imapSettings |-> imapSettings]
              emailRequest ==
                  [smtpSettings |->
                       MergeSettings(requests[id].smtpSettings, smtpSettings),
                   imapSettings |->
                       MergeSettings(requests[id].imapSettings, imapSettings)]
          IN  /\ call' = [call EXCEPT ![p] = c]
              /\ pc' = [pc EXCEPT ![p] = "done"]
              /\ IF \A path \in SettingsPaths : SettingsValid(emailRequest[path])
                 THEN /\ requests' = [requests EXCEPT ![id] = emailRequest]
                      /\ resp' = [resp EXCEPT ![p] = Response(200,
                             "Email request status updated successfully")]
                 ELSE /\ UNCHANGED requests
                      /\ resp' = [resp EXCEPT ![p] = Failure(
                             "Failed to update email request status",
                             "ValidationError")]
    /\ UNCHANGED <<domains, nextId, clock, local, appends>>
    /\ UNCHANGED others

\* one stored request, with any settings a document can hold
MergeInit ==
    /\ InitOthers
    /\ domains = [d \in DomainIds |-> NewDomain(d, "alice")]
    /\ requests \in [{1} -> [smtpSettings : StoredSettings,
                              imapSettings : StoredSettings]]
    /\ nextId = 2
    /\ clock = 1
    /\ pc = [p \in Procs |-> "idle"]
    /\ call = [p \in Procs |-> NULL]
    /\ local = [p \in Procs |-> NULL]
    /\ resp = [p \in Procs |-> NULL]
    /\ appends = [i \in RequestIds |-> 0]

MergeNext == \E p \in Procs : TransitionSettings(p) \/ Return(p)

MergeSpec == MergeInit /\ [][MergeNext]_vars

-----------------------------------------------------------------------------
(* Admin user management: router.put('/users/:id') and                      *)
(* router.delete('/users/:id'), behind router.use(authenticateToken,        *)
(* requireAdmin)                                                            *)

AccountIds == Users \cup {"ops"}

\* req.body.isAdmin as JSON text: the field is absent, a boolean, or the
\* string 'false'
BodyFlags == {"undefined", "true", "false", "'false'"}

\* body('isAdmin').optional().isBoolean(): the value, as a string, is one of
\* true, false, 1, 0
IsBoolean(v) ==
    v \in {"true", "false", "1", "0", "'true'", "'false'", "'1'", "'0'"}

\* isAdmin === false
StrictlyFalse(v) == v = "false"

\* the cast of a value assigned to a Boolean path of the schema
CastBoolean(v) == v \in {"true", "1", "'true'", "'1'", "'yes'"}

\* authenticateToken and requireAdmin for caller user: the response that
\* ends the request, or NULL when the route's handler runs
AdminGate(user) ==
    IF user \notin DOMAIN users
    THEN Response(401, "Invalid token. User not found.")
    ELSE IF ~users[user].isAdmin
    THEN Response(403, "Access denied. Admin privileges required.")
    ELSE NULL

\* authenticateToken's User.findById, requireAdmin, then lines 304-323: the
\* validators and the check against self-demotion, up to User.findById
UserUpdateAuth(p) ==
    /\ pc[p] = "idle"
    /\ \E user \in AccountIds :
          IF ~IsNull(AdminGate(user))
          THEN Respond(p, AdminGate(user))
          ELSE \E id \in AccountIds, flag \in BodyFlags :
               LET c == [op |-> "userUpdate", user |-> user, id |-> id,
                         isAdmin |-> flag] IN
               IF flag # "undefined" /\ ~IsBoolean(flag)
               THEN Respond(p, Response(400, "Validation failed"))
               ELSE IF id = user /\ StrictlyFalse(flag)
               THEN Respond(p, Response(400,
                        "You cannot remove your own admin privileges"))
               ELSE Begin(p, c, "userUpdate_find", NULL)
    /\ UNCHANGED <<workflow, others>>

\* lines 323-348: User.findById, then the in-memory change of isAdmin
UserUpdateFind(p) ==
    /\ pc[p] = "userUpdate_find"
    /\ LET user == FindById(users, call[p].id)
           isAdminBody == call[p].isAdmin
       IN  IF IsNull(user)
           THEN Respond(p, Response(404, "User not found"))
           ELSE IF isAdminBody # "undefined"
           THEN Goto(p, "userUpdate_save",
                     Held(SetPath(user, {}, "isAdmin", CastBoolean(isAdminBody)),
                          {}))
           ELSE Goto(p, "userUpdate_save", Held([doc |-> user, modified |-> {}], {}))
    /\ UNCHANGED <<workflow, others>>

\* lines 350-356: user.save()
UserUpdateSave(p) ==
    /\ pc[p] = "userUpdate_save"
    /\ LET id == call[p].id
       IN  IF DOMAIN local[p].delta = {}
           THEN /\ Respond(p, Response(200, "User updated successfully"))
                /\ UNCHANGED users
           ELSE IF id \notin DOMAIN users
           THEN /\ Respond(p, Failure("Failed to update user",
                                      "DocumentNotFoundError"))
                /\ UNCHANGED users
           ELSE /\ users' = [users EXCEPT ![id] = SetModified(@, local[p].delta)]
                /\ Respond(p, Response(200, "User updated successfully"))
    /\ UNCHANGED <<workflow, registrar, gmail, sms>>

\* authenticateToken's User.findById, requireAdmin, then lines 370-377: the
\* check against deleting oneself, up to User.findById
UserDeleteAuth(p) ==
    /\ pc[p] = "idle"
    /\ \E user \in AccountIds :
          IF ~IsNull(AdminGate(user))
          THEN Respond(p, AdminGate(user))
          ELSE \E id \in AccountIds :
               LET c == [op |-> "userDelete", user |-> user, id |-> id] IN
               IF id = user
               THEN Respond(p, Response(400, "You cannot delete your own account"))
               ELSE Begin(p, c, "userDelete_find", NULL)
    /\ UNCHANGED <<workflow, others>>

\* lines 379-382: User.findById
UserDeleteFind(p) ==
    /\ pc[p] = "userDelete_find"
    /\ IF IsNull(FindById(users, call[p].id))
       THEN Respond(p, Response(404, "User not found"))
       ELSE Goto(p, "userDelete_delete", NULL)
    /\ UNCHANGED <<workflow, others>>

\* lines 384-389: User.findByIdAndDelete
UserDeleteDelete(p) ==
    /\ pc[p] = "userDelete_delete"
    /\ users' = Without(users, {call[p].id})
    /\ Respond(p, Response(200, "User deleted successfully"))
    /\ UNCHANGED <<workflow, registrar, gmail, sms>>

\* two admins and one account without the flag
AdminInit ==
    /\ InitWorkflow
    /\ users = [u \in AccountIds |-> [isAdmin |-> u # "alice"]]
    /\ registrar = InitialRegistrar
    /\ gmail = InitialGmail
    /\ sms = <<>>

AdminNext ==
    \E p \in Procs :
        \/ UserUpdateAuth(p)
        \/ UserUpdateFind(p)
        \/ UserUpdateSave(p)
        \/ UserDeleteAuth(p)
        \/ UserDeleteFind(p)
        \/ UserDeleteDelete(p)
        \/ Return(p)

AdminSpec == AdminInit /\ [][AdminNext]_vars

-----------------------------------------------------------------------------
(* The reads of routes/emails.js: router.get('/'), router.get('/:id') and   *)
(* router.get('/stats/summary'), behind router.use(authenticateToken)       *)

\* res.json({ success: true, ... }) with the Email Requests it carries
Result(items) ==
    [status |-> 200, message |-> "success", error |-> "", items |-> items]

\* .sort({ createdAt: -1 }) of the documents whose ids are in ids
RECURSIVE NewestFirst(_, _)
NewestFirst(coll, ids) ==
    IF ids = {} THEN <<>>
    ELSE LET newest == CHOOSE i \in ids : \A j \in ids : j <= i
         IN  <<coll[newest]>> \o NewestFirst(coll, ids \ {newest})

\* .limit(n)
Limit(seq, n) == SubSeq(seq, 1, IF Len(seq) < n THEN Len(seq) ELSE n)

\* req.query.status and req.query.domain of the list: absent, or a value
ListStatuses == RequestStatuses \cup {"undefined"}

ListDomains == {<<"x.io">>, <<>>}

\* .limit(5) of the statistics' recent requests (line 337)
RecentLimit == 5

\* authenticateToken, then lines 15-28: the query is built and sent
ListAuth(p) ==
    /\ pc[p] = "idle"
    /\ \E user \in Users, status \in ListStatuses, domain \in ListDomains :
          Begin(p, [op |-> "list", user |-> user, status |-> status,
                    domain |-> domain], "list_find", NULL)
    /\ UNCHANGED <<workflow, others>>

\* lines 31-40: EmailRequest.find(query) and the response
ListFind(p) ==
    /\ pc[p] = "list_find"
    /\ LET hits == {i \in DOMAIN requests :
                       /\ call[p].status # "undefined"
                             => requests[i].status = call[p].status
                       /\ call[p].domain # <<>>
                             => requests[i].domainName = call[p].domain
                       /\ ~isAdmin[call[p].user]
                             => requests[i].requestedBy = call[p].user}
       IN  Respond(p, Result(NewestFirst(requests, hits)))
    /\ UNCHANGED <<workflow, others>>

\* authenticateToken, then line 55: EmailRequest.findById is sent
GetAuth(p) ==
    /\ pc[p] = "idle"
    /\ \E user \in Users, id \in RequestIds :
          Begin(p, [op |-> "get", user |-> user, id |-> id], "get_find", NULL)
    /\ UNCHANGED <<workflow, others>>

\* lines 55-72: EmailRequest.findById, the owner-or-admin check, the response
GetFind(p) ==
    /\ pc[p] = "get_find"
    /\ LET emailRequest == FindById(requests, call[p].id)
       IN  IF IsNull(emailRequest)
           THEN Respond(p, Response(404, "Email request not found"))
           ELSE IF ~isAdmin[call[p].user]
                   /\ emailRequest.requestedBy # call[p].user
           THEN Respond(p, Response(403, "Access denied"))
           ELSE Respond(p, Result(<<emailRequest>>))
    /\ UNCHANGED <<workflow, others>>

\* authenticateToken, then line 311: EmailRequest.aggregate is sent
StatsAuth(p) ==
    /\ pc[p] = "idle"
    /\ \E user \in Users :
          Begin(p, [op |-> "stats", user |-> user], "stats_find", NULL)
    /\ UNCHANGED <<workflow, others>>

\* lines 311-343: the counts by status, then EmailRequest.find() sorted and
\* limited, and the response with the recent requests
StatsFind(p) ==
    /\ pc[p] = "stats_find"
    /\ Respond(p, Result(Limit(NewestFirst(requests, DOMAIN requests),
                               RecentLimit)))
    /\ UNCHANGED <<workflow, others>>

\* the collections the reads are made on: up to MaxRequests stored requests
\* of either account, in any status
ReadInit ==
    /\ InitOthers
    /\ domains = [d \in DomainIds |-> NewDomain(d, "alice")]
    /\ \E n \in 0..MaxRequests :
          /\ nextId = n + 1
          /\ requests \in
                [1..n -> {[NewEmailRequest("d1", <<"x.io">>, <<"a">>,
                                           <<"a", "@", "x.io">>, "Abcd1234!", u)
                              EXCEPT !.status = st] :
                          u \in Users, st \in RequestStatuses}]
    /\ clock = 1
    /\ pc = [p \in Procs |-> "idle"]
    /\ call = [p \in Procs |-> NULL]
    /\ local = [p \in Procs |-> NULL]
    /\ resp = [p \in Procs |-> NULL]
    /\ appends = [i \in RequestIds |-> 0]

ReadNext ==
    \E p \in Procs :
        \/ ListAuth(p)
        \/ ListFind(p)
        \/ GetAuth(p)
        \/ GetFind(p)
        \/ StatsAuth(p)
        \/ StatsFind(p)
        \/ Return(p)

ReadSpec == ReadInit /\ [][ReadNext]_vars

-----------------------------------------------------------------------------
(* purchase: router.post('/purchase') of routes/domains.js, with the        *)
(* registrar behind NamecheapAPI                                            *)

\* req.body.domain: the name of the Domain already stored, and two others
PurchaseNames == {<<"x.io">>, <<"y.io">>, <<"z.io">>}

\* the _id a new Domain document gets
NewDomainId(coll) == IF "d2" \notin DOMAIN coll THEN "d2" ELSE "d3"

\* Domain.findOne({ domainName })
FindOneDomain(coll, domainName) ==
    LET hits == {d \in DOMAIN coll : coll[d].domainName = domainName}
    IN  IF hits = {} THEN NULL ELSE coll[CHOOSE d \in hits : TRUE]

\* NamecheapAPI.checkDomainAvailability: the object { available, premiumPrice }
\* parsed from the registrar's answer (the match ignores case)
checkDomainAvailability(domain) ==
    [available |-> ToLowerCase(domain) \in registrar.available,
     premiumPrice |-> NULL]

\* new Domain({...}) of the purchase
PurchasedDomain(domain, user) ==
    [domainName  |-> Trim(ToLowerCase(domain)),
     status      |-> "active",
     emails      |-> <<>>,
     purchasedBy |-> user]

\* lines 126-152: the validators, then Domain.findOne
PurchaseFindDomain(p) ==
    /\ pc[p] = "idle"
    /\ \E user \in Users, domain \in PurchaseNames :
          LET existingDomain == FindOneDomain(domains, ToLowerCase(domain)) IN
          IF ~IsNull(existingDomain)
          THEN Respond(p, Response(400,
                   "Domain already purchased through this system"))
          ELSE Begin(p, [op |-> "purchase", user |-> user, domain |-> domain],
                     "purchase_check", NULL)
    /\ UNCHANGED <<workflow, others>>

\* lines 159-165: checkDomainAvailability and `if (!available)` on what it
\* returned
PurchaseCheck(p) ==
    /\ pc[p] = "purchase_check"
    /\ LET available == checkDomainAvailability(call[p].domain)
       IN  IF IsNull(available)
           THEN Respond(p, Response(400, "Domain is not available for purchase"))
           ELSE Goto(p, "purchase_pricing", [available |-> available])
    /\ UNCHANGED <<workflow, others>>

\* lines 167-173: getDomainPricing; a failure is logged and ignored
PurchasePricing(p) ==
    /\ pc[p] = "purchase_pricing"
    /\ Goto(p, "purchase_buy", local[p])
    /\ UNCHANGED <<workflow, others>>

\* lines 175-182: purchaseDomain: the registrar is asked to register the
\* name, and answers with an error when it cannot
PurchaseBuy(p) ==
    /\ pc[p] = "purchase_buy"
    /\ LET domain == call[p].domain
       IN  /\ registrar' =
                 [available |-> registrar.available \ {ToLowerCase(domain)},
                  purchased |-> registrar.purchased \cup {domain}]
           /\ IF ToLowerCase(domain) \in registrar.available
              THEN Goto(p, "purchase_save", local[p])
              ELSE Respond(p, Failure("Failed to purchase domain",
                                      "Namecheap API Error"))
    /\ UNCHANGED <<workflow, users, gmail, sms>>

\* lines 184-205: new Domain({...}).save() under the unique index of
\* domainName, then the response
PurchaseSave(p) ==
    /\ pc[p] = "purchase_save"
    /\ LET newDomain == PurchasedDomain(call[p].domain, call[p].user)
       IN  IF ~IsNull(FindOneDomain(domains, newDomain.domainName))
           THEN /\ Respond(p, Failure("Failed to purchase domain",
                                      "E11000 duplicate key"))
                /\ UNCHANGED domains
           ELSE /\ domains' = domains @@ (NewDomainId(domains) :> newDomain)
                /\ Respond(p, Response(201, "Domain purchased successfully"))
    /\ UNCHANGED <<requests, nextId, clock, appends, others>>

\* one stored Domain; the registrar reports any of the other names available
PurchaseInit ==
    /\ InitWorkflow
    /\ users = InitialUsers
    /\ \E names \in SUBSET {<<"y.io">>, <<"z.io">>} :
          registrar = [available |-> names, purchased |-> {}]
    /\ gmail = InitialGmail
    /\ sms = <<>>

PurchaseNext ==
    \E p \in Procs :
        \/ PurchaseFindDomain(p)
        \/ PurchaseCheck(p)
        \/ PurchasePricing(p)
        \/ PurchaseBuy(p)
        \/ PurchaseSave(p)
        \/ Return(p)

PurchaseSpec == PurchaseInit /\ [][PurchaseNext]_vars

-----------------------------------------------------------------------------
(* SMS log: routes/sms.js, GmailAPI (services/gmailAPI), the token store    *)
(* and the OAuth callback of server.js.  Callers carry a valid token of an  *)
(* existing account, so authenticateToken lets them through.                *)

\* gmail.users.messages.list for the sender: the ids of the mailbox
GmailMessages == <<"m1", "m2", "m3">>

\* decodeEmailBody(fullMessage.payload): "m3" has no text body
decodeEmailBody(messageId) == IF messageId = "m3" THEN "" ELSE "body"

\* the tokens Google hands out for an authorization code
GoogleTokens == [access_token |-> [value |-> "at"],
                 refresh_token |-> [value |-> "rt"]]

\* req.query.code of the callback: none, or a code
Codes == {"", "c1"}

\* error.message.includes(word), with a message as its sequence of words
Includes(message, word) == \E i \in 1..Len(message) : message[i] = word

\* getMessagesFromSender's catch: whatever the Gmail client threw is replaced
GetMessagesFromSenderError(cause) ==
    <<"Failed", "to", "fetch", "messages", "from", "Gmail">>

\* syncSmsMessages' outer catch: whatever was thrown inside is replaced
SyncSmsMessagesError(cause) == <<"Failed", "to", "sync", "SMS", "messages">>

\* what the Gmail client throws for rejected credentials
GmailErrors == {<<"invalid_grant">>, <<"unauthorized">>}

\* SmsMessage.findOne({ messageId })
FindOneSms(coll, messageId) ==
    LET hits == {i \in 1..Len(coll) : coll[i].messageId = messageId}
    IN  IF hits = {} THEN NULL
        ELSE coll[CHOOSE i \in hits : \A j \in hits : i <= j]

\* an insert into a collection that has no index on messageId
InsertSmsNoIndex(coll, doc) == [ok |-> TRUE, coll |-> Append(coll, doc)]

\* smsMessage.save() of a new document: the insert under the unique index of
\* messageId
InsertSms(coll, doc) ==
    IF \E i \in 1..Len(coll) : coll[i].messageId = doc.messageId
    THEN [ok |-> FALSE, coll |-> coll]
    ELSE [ok |-> TRUE, coll |-> Append(coll, doc)]

\* SmsMessage.findOneAndUpdate({ messageId }, { isRead: true })
FindOneAndMarkRead(coll, messageId) ==
    LET hits == {i \in 1..Len(coll) : coll[i].messageId = messageId}
        first == CHOOSE i \in hits : \A j \in hits : i <= j
    IN  IF hits = {} THEN coll ELSE [coll EXCEPT ![first].isRead = TRUE]

\* a removal that leaves the entry in place
KeepTokens(store) == store

\* TokenStore.removeDefaultTokens: the entry of 'default' is deleted
removeDefaultTokens(store) == NULL

\* every Gmail message that has a body is in the stored log
AllStored(coll) ==
    \A k \in 1..Len(GmailMessages) :
        decodeEmailBody(GmailMessages[k]) # ""
            => ~IsNull(FindOneSms(coll, GmailMessages[k]))

\* the response of a completed sync
SyncResult(loc) ==
    [status |-> 200, message |-> "Synced new messages", error |-> "",
     newMessages |-> loc.newMessages,
     totalMessages |-> Len(loc.messages),
     errors |-> loc.errors]

\* the end of one turn of `for (const message of messages)`
SyncContinue(p, loc) ==
    IF loc.i = Len(loc.messages)
    THEN Respond(p, SyncResult(loc))
    ELSE Goto(p, "sync_findOne", [loc EXCEPT !.i = @ + 1])

SyncLabels == {"sync_list", "sync_findOne", "sync_getMessage", "sync_save"}

\* sms.js 53-64: POST /sync up to the call of syncSmsMessages
SyncStart(p) ==
    /\ pc[p] = "idle"
    /\ LET tokens == gmail.tokens IN
       IF IsNull(tokens) \/ IsNull(tokens.access_token)
       THEN /\ Respond(p, Response(401, "Gmail not authenticated"))
            /\ gmail' = [gmail EXCEPT !.refused = gmail.disconnected]
       ELSE /\ Begin(p, [op |-> "sync"], "sync_list",
                     [messages |-> <<>>, i |-> 0, newMessages |-> 0,
                      errors |-> 0, repeat |-> FALSE, retried |-> FALSE])
            /\ gmail' = [gmail EXCEPT !.credentials = tokens]
    /\ UNCHANGED <<workflow, users, registrar, sms>>

\* part_002 220 (getMessagesFromSender) and, when it throws, the catch of
\* syncSmsMessages (299-302) and of the route (sms.js 72-104)
SyncList(p) ==
    /\ pc[p] = "sync_list"
    /\ \E cause \in GmailErrors \cup {<<>>} :
          IF cause = <<>>
          THEN SyncContinue(p, [local[p] EXCEPT !.messages = GmailMessages,
                                               !.repeat = AllStored(sms)])
          ELSE LET error ==
                       SyncSmsMessagesError(GetMessagesFromSenderError(cause))
                   currentTokens == gmail.tokens
               IN  IF Includes(error, "invalid_grant")
                      \/ Includes(error, "unauthorized")
                   THEN IF ~local[p].retried /\ ~IsNull(currentTokens)
                           /\ ~IsNull(currentTokens.refresh_token)
                        THEN Goto(p, "sync_refresh",
                                  [local[p] EXCEPT !.messages = <<currentTokens>>])
                        ELSE Respond(p, Response(401,
                                 "Gmail authentication expired. Please re-authorize."))
                   ELSE Respond(p, Failure("Failed to sync messages",
                                           "Failed to sync SMS messages"))
    /\ UNCHANGED <<workflow, others>>

\* sms.js 80-85: refreshTokens, the merged tokens are stored, and the sync is
\* run again
SyncRefresh(p) ==
    /\ pc[p] = "sync_refresh"
    /\ gmail' = [gmail EXCEPT
                    !.tokens = ObjectSpread(local[p].messages[1], GoogleTokens),
                    !.credentials = GoogleTokens]
    /\ Goto(p, "sync_list", [local[p] EXCEPT !.messages = <<>>,
                                            !.retried = TRUE])
    /\ UNCHANGED <<workflow, users, registrar, sms>>

\* part_002 228-232: SmsMessage.findOne({ messageId: message.id })
SyncFindOne(p) ==
    /\ pc[p] = "sync_findOne"
    /\ LET message == local[p].messages[local[p].i]
           existingMessage == FindOneSms(sms, message)
       IN  IF ~IsNull(existingMessage)
           THEN SyncContinue(p, local[p])
           ELSE Goto(p, "sync_getMessage", local[p])
    /\ UNCHANGED <<workflow, others>>

\* part_002 234-242: getMessage (which may throw) and decodeEmailBody
SyncGetMessage(p) ==
    /\ pc[p] = "sync_getMessage"
    /\ LET message == local[p].messages[local[p].i] IN
       \E fetched \in BOOLEAN :
          IF ~fetched
          THEN SyncContinue(p, [local[p] EXCEPT !.errors = @ + 1])
          ELSE IF decodeEmailBody(message) = ""
          THEN SyncContinue(p, local[p])
          ELSE Goto(p, "sync_save", local[p])
    /\ UNCHANGED <<workflow, others>>

\* part_002 244-285: the document is built and saved; a rejected insert is
\* counted by the inner catch
SyncSave(p) ==
    /\ pc[p] = "sync_save"
    /\ LET message == local[p].messages[local[p].i]
           smsMessage == [messageId |-> message, isRead |-> FALSE]
           saved == InsertSms(sms, smsMessage)
       IN  /\ sms' = saved.coll
           /\ IF saved.ok
              THEN SyncContinue(p, [local[p] EXCEPT !.newMessages = @ + 1])
              ELSE SyncContinue(p, [local[p] EXCEPT !.errors = @ + 1])
    /\ UNCHANGED <<workflow, users, registrar, gmail>>

\* sms.js 144-158 with GmailAPI.markAsRead (part_002 327-340)
MarkAsRead(p) ==
    /\ pc[p] = "idle"
    /\ \E k \in 1..Len(GmailMessages) :
          sms' = FindOneAndMarkRead(sms, GmailMessages[k])
    /\ Respond(p, Response(200, "Message marked as read"))
    /\ UNCHANGED <<workflow, users, registrar, gmail>>

\* sms.js 42-50: POST /auth/disconnect
Disconnect(p) ==
    /\ pc[p] = "idle"
    /\ gmail' = [gmail EXCEPT !.tokens = removeDefaultTokens(gmail.tokens),
                              !.disconnected = TRUE,
                              !.refused = FALSE]
    /\ Respond(p, Response(200, "Gmail disconnected successfully"))
    /\ UNCHANGED <<workflow, users, registrar, sms>>

\* server.js 60-72: GET /oauth2callback up to the exchange of the code
CallbackStart(p) ==
    /\ pc[p] = "idle"
    /\ \E code \in Codes :
          IF code = ""
          THEN Respond(p, Response(302, "/?auth=error&message=no_code"))
          ELSE Begin(p, [op |-> "oauth2callback", code |-> code],
                     "oauth_getTokens", NULL)
    /\ UNCHANGED <<workflow, others>>

\* server.js 72-88 with GmailAPI.getTokens (part_002 30-40): the tokens are
\* stored, or the exchange fails
CallbackStore(p) ==
    /\ pc[p] = "oauth_getTokens"
    /\ \E exchanged \in BOOLEAN :
          IF exchanged
          THEN /\ gmail' = [tokens |-> GoogleTokens,
                            credentials |-> GoogleTokens,
                            disconnected |-> FALSE,
                            refused |-> FALSE]
               /\ Respond(p, Response(302, "/?section=sms-central&auth=success"))
          ELSE /\ gmail' = gmail
               /\ Respond(p, Response(302, "/?section=sms-central&auth=error"))
    /\ UNCHANGED <<workflow, users, registrar, sms>>

\* nothing stored, Gmail not connected
SmsInit ==
    /\ InitWorkflow
    /\ InitOthers

SmsNext ==
    \E p \in Procs :
        \/ SyncStart(p)
        \/ SyncList(p)
        \/ SyncFindOne(p)
        \/ SyncGetMessage(p)
        \/ SyncSave(p)
        \/ MarkAsRead(p)
        \/ Disconnect(p)
        \/ CallbackStart(p)
        \/ CallbackStore(p)
        \/ Return(p)

SmsSpec == SmsInit /\ [][SmsNext]_vars

-----------------------------------------------------------------------------
(* Properties *)

\* handler p takes a step
Steps(p) == pc'[p] # pc[p]

\* handler p ends in this step, with an error response
Rejected(p) == pc'[p] = "done" /\ resp'[p].status >= 400

\* the Conflict error: the 400 responses that name a duplicate
ConflictMessages ==
    {"Email request already exists for this username on this domain",
     "Email already exists on this domain"}

IsConflict(r) == r.status = 400 /\ r.message \in ConflictMessages

\* the stored requests for Domain d and a username that normalizes like u
RequestsFor(d, u) ==
    {i \in DOMAIN requests :
        /\ requests[i].domain = d
        /\ UsernameSetter(requests[i].requestedUsername) = UsernameSetter(u)}

TerminalStatuses == {"created", "rejected"}

\* C1: in every reachable state at most one Email Request exists for each
\* pair (Domain, normalized requested username).
C1_OneRequestPerDomainAndUsername ==
    \A i, j \in DOMAIN requests :
        j \in RequestsFor(requests[i].domain, requests[i].requestedUsername)
            => i = j

\* C1 witness: a submit lost to the unique index while the request of the
\* winner is stored.
C1_Witness ==
    \E p \in Procs :
        /\ pc[p] = "done"
        /\ resp[p].error = "E11000 duplicate key"
        /\ DOMAIN requests # {}

\* C2: a submit that reaches its insert when a request for the same Domain
\* and username has been stored since its existence check (it lost the race)
\* returns the Conflict error, and no second request is stored.
C2_RaceLoserGetsConflict ==
    [][\A p \in Procs :
          (/\ pc[p] = "submit_save"
           /\ Steps(p)
           /\ PasswordValid(call[p].password)
           /\ RequestsFor(call[p].domainId, call[p].username) # {})
          => /\ pc'[p] = "done"
             /\ IsConflict(resp'[p])
             /\ requests' = requests]_vars

\* C3: once a request is created or rejected, a transition to the other
\* terminal status is rejected and the stored status does not change.
C3_NoTransitionBetweenTerminalStatuses ==
    [][\A p \in Procs :
          (/\ pc[p] = "transition_save"
           /\ Steps(p)
           /\ call[p].id \in DOMAIN requests
           /\ requests[call[p].id].status \in TerminalStatuses
           /\ call[p].status \in TerminalStatuses \ {requests[call[p].id].status})
          => /\ Rejected(p)
             /\ requests'[call[p].id].status = requests[call[p].id].status]_vars

\* C4: a transition to pending of a request that is created or rejected
\* returns an error and leaves status, processor and processing timestamp
\* unchanged.
C4_NoTransitionBackToPending ==
    [][\A p \in Procs :
          (/\ pc[p] = "transition_save"
           /\ Steps(p)
           /\ call[p].id \in DOMAIN requests
           /\ requests[call[p].id].status \in TerminalStatuses
           /\ call[p].status = "pending")
          => /\ Rejected(p)
             /\ requests'[call[p].id].status = requests[call[p].id].status
             /\ requests'[call[p].id].processedBy = requests[call[p].id].processedBy
             /\ requests'[call[p].id].processedAt = requests[call[p].id].processedAt]_vars

\* C5: the mailbox record of an Email Request is appended to its Domain's
\* mailbox list at most once.
C5_MailboxAppendedAtMostOnce ==
    \A i \in RequestIds : appends[i] <= 1

\* C6: every successful transition to created grows the mailbox list of the
\* request's Domain by exactly one, and the list then holds an entry whose
\* fullEmail is the request's fullEmailAddress.
C6_CreatedAppendsOneMailbox ==
    [][\A p \in Procs :
          (/\ pc[p] \in {"transition_findDomain", "transition_saveDomain"}
           /\ pc'[p] = "done"
           /\ resp'[p].status = 200)
          => /\ local[p].domain \in DOMAIN domains
             /\ local[p].domain \in DOMAIN domains'
             /\ LET before == domains[local[p].domain].emails
                    after  == domains'[local[p].domain].emails
                IN  /\ Len(after) = Len(before) + 1
                    /\ \E k \in 1..Len(after) :
                          after[k].fullEmail = local[p].fullEmailAddress]_vars

\* C7: when the Domain of the request cannot be found during a transition
\* to created, the transition returns an error and the stored status of the
\* request is not created.
C7_MissingDomainFailsTransition ==
    [][\A p \in Procs :
          (/\ pc[p] = "transition_findDomain"
           /\ Steps(p)
           /\ local[p].domain \notin DOMAIN domains)
          => /\ Rejected(p)
             /\ call[p].id \in DOMAIN requests'
                   => requests'[call[p].id].status # "created"]_vars

\* C8: in every reachable state every Email Request whose status is created
\* has an entry with its fullEmailAddress in the mailbox list of its Domain.
C8_CreatedHasMailbox ==
    \A i \in DOMAIN requests :
        requests[i].status = "created"
        => /\ requests[i].domain \in DOMAIN domains
           /\ \E k \in 1..Len(domains[requests[i].domain].emails) :
                 domains[requests[i].domain].emails[k].fullEmail
                     = requests[i].fullEmailAddress

\* C9: a submit against a Domain whose status is not active is rejected and
\* creates no Email Request.
C9_SubmitNeedsActiveDomain ==
    [][\A p \in Procs :
          (/\ pc[p] = "submit_save"
           /\ Steps(p)
           /\ local[p].status # "active")
          => /\ Rejected(p)
             /\ requests' = requests]_vars

\* C10: a submit whose username, lowercased and trimmed, equals the username
\* of a mailbox in the Domain's mailbox list (compared without case) is
\* rejected with a conflict and creates no request.
C10_SubmitConflictsWithMailbox ==
    [][\A p \in Procs :
          (/\ pc[p] = "submit_save"
           /\ Steps(p)
           /\ \E k \in 1..Len(local[p].emails) :
                 ToLowerCase(local[p].emails[k].username)
                     = Trim(ToLowerCase(call[p].username)))
          => /\ pc'[p] = "done"
             /\ IsConflict(resp'[p])
             /\ requests' = requests]_vars

\* C11: in every reachable state the usernames in a Domain's mailbox list
\* are pairwise distinct when compared without case.
C11_MailboxUsernamesDistinct ==
    \A d \in DOMAIN domains :
        \A i, j \in 1..Len(domains[d].emails) :
            ToLowerCase(domains[d].emails[i].username)
                = ToLowerCase(domains[d].emails[j].username) => i = j

\* C12: a remove by a caller who is not an admin deletes the request only
\* when the caller is its requester and its status is pending; otherwise it
\* is refused and the request remains.
C12_NonAdminRemovesOnlyOwnPending ==
    [][\A p \in Procs :
          (/\ pc[p] = "remove_delete"
           /\ Steps(p)
           /\ ~isAdmin[call[p].user]
           /\ call[p].id \in DOMAIN requests
           /\ \/ requests[call[p].id].requestedBy # call[p].user
              \/ requests[call[p].id].status # "pending")
          => /\ Rejected(p)
             /\ requests' = requests]_vars

\* C13: a remove, by any caller and on a request of any status, leaves the
\* mailbox list of every Domain unchanged.
C13_RemoveKeepsMailboxes ==
    [][\A p \in Procs :
          (/\ Steps(p)
           /\ pc[p] = "remove_delete" \/ pc'[p] = "remove_delete")
          => domains' = domains]_vars

\* C13 witness: a remove has deleted a request whose mailbox had been
\* appended, and the Domain still lists the mailbox.
C13_Witness ==
    /\ \E p \in Procs :
          /\ pc[p] = "done"
          /\ resp[p].message = "Email request deleted successfully"
    /\ \A p \in Procs : pc[p] # "domainDelete_domain"
    /\ \E i \in RequestIds, d \in DOMAIN domains :
          /\ appends[i] >= 1
          /\ i < nextId
          /\ i \notin DOMAIN requests
          /\ Len(domains[d].emails) >= 1

AdminOnlyMessage == "Access denied. Admin privileges required."

\* C14: a transition called by an account without the administrative flag
\* never gets past the check: it is answered 403 and changes neither the
\* Email Requests nor the Domains.
C14_TransitionNeedsAdmin ==
    [][\A p \in Procs :
          /\ (pc[p] = "idle" /\ pc'[p] = "transition_save")
                => isAdmin[call'[p].user]
          /\ (/\ pc[p] \in {"transition_save", "transition_findDomain",
                              "transition_saveDomain"}
              /\ Steps(p))
                => isAdmin[call[p].user]
          /\ (/\ pc[p] = "idle"
              /\ pc'[p] = "done"
              /\ resp'[p].message = AdminOnlyMessage)
                => /\ resp'[p].status = 403
                   /\ requests' = requests
                   /\ domains' = domains]_vars

\* C14 witness: a caller was refused for lack of the administrative flag
\* while a request it could have acted on is stored.
C14_Witness ==
    /\ \E p \in Procs :
          /\ pc[p] = "done"
          /\ resp[p].status = 403
          /\ resp[p].message = AdminOnlyMessage
    /\ DOMAIN requests # {}

\* C15: when a transition supplies a partial settings object and the request
\* already has settings, the saved settings hold the supplied value of every
\* supplied field, the previous value of every other field, and no other
\* field.
C15_SettingsMerged ==
    [][\A p \in Procs, id \in DOMAIN requests, path \in SettingsPaths :
          (/\ pc[p] = "idle"
           /\ pc'[p] = "done"
           /\ resp'[p].status = 200
           /\ call'[p].id = id
           /\ ~IsNull(call'[p][path]))
          => LET supplied == call'[p][path]
                 previous == requests[id][path]
                 result == requests'[id][path]
             IN  /\ DOMAIN result = DOMAIN previous \cup DOMAIN supplied
                 /\ \A k \in DOMAIN result :
                       result[k] = IF k \in DOMAIN supplied
                                   THEN supplied[k] ELSE previous[k]]_vars

\* C15 witness: a transition that supplied only port 465 has left settings
\* whose server is the one held before.
C15_Witness ==
    \E p \in Procs, id \in DOMAIN requests :
        /\ pc[p] = "done"
        /\ call[p].id = id
        /\ resp[p].status = 200
        /\ ~IsNull(call[p].smtpSettings)
        /\ DOMAIN call[p].smtpSettings = {"port"}
        /\ call[p].smtpSettings.port = 465
        /\ DOMAIN requests[id].smtpSettings = {"server", "port"}
        /\ requests[id].smtpSettings.server = "a"
        /\ requests[id].smtpSettings.port = 465

\* C16: a successful submit stores exactly one new Email Request; its status
\* is pending, its domainName is the name of the Domain, its requester is the
\* caller, and its full address is the normalized (lowercased, trimmed)
\* username, then "@", then the name of the Domain.
C16_SubmitCreatesPendingRequest ==
    [][\A p \in Procs :
          (/\ pc[p] = "submit_save"
           /\ pc'[p] = "done"
           /\ resp'[p].status = 201)
          => /\ DOMAIN requests' = DOMAIN requests \cup {nextId}
             /\ nextId \notin DOMAIN requests
             /\ \A i \in DOMAIN requests : requests'[i] = requests[i]
             /\ LET new == requests'[nextId]
                IN  /\ new.status = "pending"
                    /\ new.domain = call[p].domainId
                    /\ new.domainName = DomainNameOf[call[p].domainId]
                    /\ new.requestedBy = call[p].user
                    /\ new.fullEmailAddress =
                           Trim(ToLowerCase(call[p].username)) \o <<"@">>
                               \o DomainNameOf[call[p].domainId]]_vars

\* the ValidationFailed error: the 400 response of a failed validation
IsValidationFailed(r) == r.status = 400

\* C17: a submit, or a transition that replaces the secret, with a secret
\* shorter than 8 characters fails with ValidationFailed and leaves the
\* stored requests unchanged.
C17_ShortSecretIsValidationFailed ==
    [][\A p \in Procs :
          (/\ pc[p] \in {"submit_save", "transition_save"}
           /\ Steps(p)
           /\ call[p].password # ""
           /\ Len(call[p].password) < 8)
          => /\ pc'[p] = "done"
             /\ IsValidationFailed(resp'[p])
             /\ requests' = requests]_vars

C19_ConcurrentTransitionLoses ==
    [][\A p \in Procs :
          (/\ pc[p] = "transition_save"
           /\ Steps(p)
           /\ call[p].id \in DOMAIN requests
           /\ requests[call[p].id].processedAt > local[p].delta.processedAt
           /\ requests[call[p].id].status # call[p].status)
          => /\ Rejected(p)
             /\ requests' = requests]_vars

\* C20: a transition whose new status is rejected or pending leaves the
\* mailbox list of every Domain unchanged.
C20_OnlyCreatedTouchesMailboxes ==
    [][\A p \in Procs :
          (/\ pc[p] \in {"transition_save", "transition_findDomain",
                          "transition_saveDomain"}
           /\ Steps(p)
           /\ call[p].status # "created")
          => /\ domains' = domains
             /\ pc'[p] = "done"]_vars

\* C20 witness: a request was rejected by a transition that has answered,
\* and its Domain exists with no mailbox for it.
C20_Witness ==
    /\ \E p \in Procs :
          /\ pc[p] = "done"
          /\ resp[p].message = "Email request status updated successfully"
    /\ \E i \in DOMAIN requests :
          /\ requests[i].status = "rejected"
          /\ appends[i] = 0
          /\ requests[i].domain \in DOMAIN domains

\* C21: when the delete of a Domain succeeds, no stored Email Request
\* references that Domain, and the caller is the Domain's owner or an admin.
C21_DomainDeleteCascades ==
    [][\A p \in Procs :
          (/\ pc[p] = "domainDelete_domain"
           /\ pc'[p] = "done"
           /\ resp'[p].status = 200)
          => /\ \A i \in DOMAIN requests' :
                   requests'[i].domain # call[p].domainId
             /\ call[p].domainId \in DOMAIN domains
                   => \/ isAdmin[call[p].user]
                      \/ domains[call[p].domainId].purchasedBy = call[p].user]_vars

\* C23: a remove by a non-admin never deletes a request whose stored status
\* is created, also when an admin's transition to created runs between the
\* remove's status check and its delete.
C23_NonAdminNeverDeletesCreated ==
    [][\A p \in Procs :
          (/\ pc[p] = "remove_delete"
           /\ Steps(p)
           /\ ~isAdmin[call[p].user]
           /\ call[p].id \in DOMAIN requests
           /\ requests[call[p].id].status = "created")
          => call[p].id \in DOMAIN requests']_vars

\* C25: in every reachable state every Email Request references a Domain
\* that exists.
C25_RequestReferencesDomain ==
    \A i \in DOMAIN requests : requests[i].domain \in DOMAIN domains

\* C26: every stored Email Request has fullEmailAddress equal to its
\* requestedUsername, then "@", then its domainName.
C26_FullAddressComposed ==
    \A i \in DOMAIN requests :
        requests[i].fullEmailAddress =
            requests[i].requestedUsername \o <<"@">> \o requests[i].domainName

\* C22: a user update that an account issues on itself never removes that
\* account's administrative flag: it is rejected and the flag stays.
C22_NoSelfDemotion ==
    [][\A p \in Procs :
          (/\ pc[p] = "userUpdate_save"
           /\ Steps(p)
           /\ call[p].id = call[p].user
           /\ call[p].id \in DOMAIN users
           /\ users[call[p].id].isAdmin)
          => /\ call[p].id \in DOMAIN users'
             /\ users'[call[p].id].isAdmin]_vars

\* C27: an operation of an admin on another account never leaves the system
\* without an account that has the administrative flag.
C27_AlwaysAnAdmin ==
    [][\A p \in Procs :
          (/\ pc[p] \in {"userUpdate_save", "userDelete_delete"}
           /\ Steps(p)
           /\ call[p].id # call[p].user
           /\ \E u \in DOMAIN users : users[u].isAdmin)
          => \E u \in DOMAIN users' : users'[u].isAdmin]_vars

\* C24: no read of the email-request API (list, get by id, statistics
\* summary) returns to a caller who is not an admin an Email Request that
\* another account requested.
C24_ReadsShowOwnRequests ==
    [][\A p \in Procs :
          (/\ pc[p] \in {"list_find", "get_find", "stats_find"}
           /\ pc'[p] = "done"
           /\ resp'[p].status = 200
           /\ ~isAdmin[call[p].user])
          => \A k \in 1..Len(resp'[p].items) :
                resp'[p].items[k].requestedBy = call[p].user]_vars

\* C28: a purchase of a name that the registrar's availability check
\* reports as not available is answered with the 'not available' rejection;
\* it issues no purchase call to the registrar and creates no Domain.
C28_UnavailableIsNotPurchased ==
    [][\A p \in Procs :
          /\ (/\ pc[p] = "purchase_check"
              /\ Steps(p)
              /\ ToLowerCase(call[p].domain) \notin registrar.available)
                => /\ Rejected(p)
                   /\ resp'[p].message = "Domain is not available for purchase"
          /\ (/\ pc[p] \in {"purchase_buy", "purchase_save"}
              /\ Steps(p)
              /\ ~local[p].available.available)
                => /\ registrar' = registrar
                   /\ domains' = domains]_vars

\* a step of the sync loop run by handler p
SyncSteps(p) ==
    /\ pc[p] \in SyncLabels
    /\ pc'[p] # pc[p] \/ local'[p] # local[p]

====
